---- MODULE Spec2Model ----
(***************************************************************************)
(* The increment lifecycle tracker of selfdev (increment_tracker.py) and   *)
(* the organism state it advances (core.py, models.py), with the git       *)
(* queries of analyzers.py that its revert planner reads.                  *)
(*                                                                         *)
(* A file name "increment_<toks>.md" is the sequence <toks> of its tokens: *)
(* single digits, the separators "-" and "_", the words "todo" and "done"  *)
(* and the slug letter "x".  Every pattern of the source is made of whole  *)
(* tokens, so matching on tokens is matching on characters; ordering is    *)
(* done on the characters (Code).  A file body is the sequence of its      *)
(* lines, each line one of the kinds the parser's patterns tell apart.     *)
(***************************************************************************)
EXTENDS Integers, Sequences, FiniteSets, TLC

VARIABLES
    files,              \* requirements/: file name -> body
    lastShown,          \* LifecycleState.lastIncrementNumberShown
    generation,         \* OrganismState.generation
    development_stage,  \* OrganismState.development_stage
    fitness_scores,     \* OrganismState.fitness_scores: perspective -> score
    fitness_history,    \* OrganismState.fitness_history
    last_git_hash,      \* OrganismState.last_git_hash
    repo,               \* the git repository of the project root
    last                \* the last operation called and what it returned

vars == <<files, lastShown, generation, development_stage, fitness_scores,
          fitness_history, last_git_hash, repo, last>>

orgVars == <<generation, development_stage, fitness_scores, fitness_history,
             last_git_hash>>

----------------------------------------------------------------------------
(* Bounds *)

MaxFiles == 2
MaxGen == 3
MaxCommits == 2
MaxStageGen == 22

----------------------------------------------------------------------------
(* File names *)

Digits == {"0", "1", "2", "3", "4", "5", "6", "7", "8", "9"}

SEP == {"-", "_"}

DigitVal(d) ==
    CASE d = "0" -> 0 [] d = "1" -> 1 [] d = "2" -> 2 [] d = "3" -> 3
      [] d = "4" -> 4 [] d = "5" -> 5 [] d = "6" -> 6 [] d = "7" -> 7
      [] d = "8" -> 8 [] d = "9" -> 9

\* The characters of a token, as code points; ".md" ends every name.
Code(t) ==
    CASE t = "-" -> <<45>>
      [] t = ".md" -> <<46, 109, 100>>
      [] t = "_" -> <<95>>
      [] t = "todo" -> <<116, 111, 100, 111>>
      [] t = "done" -> <<100, 111, 110, 101>>
      [] t = "x" -> <<120>>
      [] t \in Digits -> <<48 + DigitVal(t)>>

\* Python's str comparison of two names of one directory, which is what
\* Path.__lt__ comes to.  No two tokens start with the same character, so
\* the first token in which the names differ decides by its first character.
PathLess(p, q) ==
    LET a == Append(p, ".md")
        b == Append(q, ".md")
        i == CHOOSE k \in 1..Len(a) :
                 /\ k <= Len(b)
                 /\ a[k] # b[k]
                 /\ \A j \in 1..(k - 1) : a[j] = b[j]
    IN Code(a[i])[1] < Code(b[i])[1]

\* The length of the \d+ run a name starts with.
NumLen(name) ==
    CHOOSE k \in 0..Len(name) :
        /\ \A i \in 1..k : name[i] \in Digits
        /\ (k = Len(name) \/ name[k + 1] \notin Digits)

RECURSIVE DigitsToInt(_)
DigitsToInt(ds) ==
    IF ds = <<>> THEN 0
    ELSE 10 * DigitsToInt(SubSeq(ds, 1, Len(ds) - 1)) + DigitVal(ds[Len(ds)])

\* re.match(increment_\d+[-_]<status>[-_].+\.md$, name)
PatternMatch(name, status) ==
    LET k == NumLen(name) IN
        /\ k >= 1
        /\ Len(name) >= k + 4
        /\ name[k + 1] \in SEP
        /\ name[k + 2] = status
        /\ name[k + 3] \in SEP

RECURSIVE SortedPaths(_)
\* sorted(S)
SortedPaths(S) ==
    IF S = {} THEN <<>>
    ELSE LET m == CHOOSE p \in S : \A q \in S \ {p} : PathLess(p, q)
         IN <<m>> \o SortedPaths(S \ {m})

_increment_files(fs, status) ==
    SortedPaths({p \in DOMAIN fs : PatternMatch(p, status)})

NoPath == <<>>

\* todos[0] of the sorted list, None (NoPath) when the list is empty
current_todo(fs) ==
    LET todos == {p \in DOMAIN fs : PatternMatch(p, "todo")} IN
        IF todos # {}
        THEN CHOOSE p \in todos : \A q \in todos \ {p} : PathLess(p, q)
        ELSE NoPath

\* len() of a list is the size of the set it lists
CountFiles(fs, status) ==
    Cardinality({p \in DOMAIN fs : PatternMatch(p, status)})

done_count(fs) == CountFiles(fs, "done")

total_count(fs) == CountFiles(fs, "todo") + CountFiles(fs, "done")

all_done(fs) == CountFiles(fs, "todo") = 0

----------------------------------------------------------------------------
(* mark_done *)

\* The first index at which sub occurs in s, 0 when it does not.
Find(s, sub) ==
    LET hits == {i \in 1..(Len(s) - Len(sub) + 1) :
                    SubSeq(s, i, i + Len(sub) - 1) = sub}
    IN IF hits = {} THEN 0 ELSE CHOOSE i \in hits : \A j \in hits : i <= j

\* s.replace(old, new, 1)
ReplaceFirst(s, old, new) ==
    LET i == Find(s, old) IN
        IF i = 0 THEN s
        ELSE SubSeq(s, 1, i - 1) \o new \o SubSeq(s, i + Len(old), Len(s))

\* The new name mark_done and the verification prompt compute.
DoneName(old_name) ==
    IF Find(old_name, <<"-", "todo", "-">>) # 0
    THEN ReplaceFirst(old_name, <<"-", "todo", "-">>, <<"-", "done", "-">>)
    ELSE ReplaceFirst(old_name, <<"_", "todo", "_">>, <<"_", "done", "_">>)

\* Path.rename: the target's old body, if any, is replaced.
Rename(fs, old, new) ==
    IF new = old THEN fs
    ELSE [p \in (DOMAIN fs \ {old}) \cup {new} |->
            IF p = new THEN fs[old] ELSE fs[p]]

----------------------------------------------------------------------------
(* parse_increment *)

\* Line kinds: "H1" a "# ..." heading, "H3" a deeper heading, "HDESC"
\* "## Description", "HAC" "## Acceptance Criteria", "HPR" "## Related
\* Principles", "BAC" "**Acceptance Criteria:**", "BPR" "**Related
\* Principles:**", "RULE" "---", "TXT" a paragraph line, "ITEM" a list item,
\* "LINK" a list item that is a link "[CODE](path)", "LINKB" one with
\* another code, "BLANK" an empty or
\* whitespace-only line, "BYTES" bytes that are not UTF-8.  Every line ends
\* with a newline.
IsHeading(l) == l \in {"H1", "H3", "HDESC", "HAC", "HPR"}

IsH2(l) == l \in {"HDESC", "HAC", "HPR"}

\* _SECTION_MARKERS
IsSectionMarker(l) == l \in {"BAC", "HAC", "BPR", "HPR", "RULE"}

\* The least element of a set of indices, 0 when it is empty.
FirstOf(S) == IF S = {} THEN 0 ELSE CHOOSE i \in S : \A j \in S : i <= j

\* str.strip() of a block of lines: the blank lines at both ends go.
Strip(ls) ==
    LET solid == {i \in 1..Len(ls) : ls[i] # "BLANK"} IN
        IF solid = {} THEN <<>>
        ELSE SubSeq(ls, FirstOf(solid),
                    CHOOSE i \in solid : \A j \in solid : j <= i)

\* Pass 1: ## Description\s*\n(.*?)(?=\n## |\Z)
StrictDescription(content) ==
    LET h == FirstOf({i \in 1..Len(content) : content[i] = "HDESC"})
        s == FirstOf({i \in (h + 1)..Len(content) : content[i] # "BLANK"})
        t == FirstOf({i \in (s + 1)..Len(content) : IsH2(content[i])})
    IN IF h = 0 \/ s = 0 THEN <<>>
       ELSE Strip(SubSeq(content, s, IF t = 0 THEN Len(content) ELSE t - 1))

\* Pass 2: the text between the first heading and the earliest marker.
FlexibleDescription(content) ==
    LET f == FirstOf({i \in 1..Len(content) : IsHeading(content[i])})
        m == FirstOf({i \in (f + 1)..Len(content) :
                         IsSectionMarker(content[i])})
    IN IF f = 0 THEN <<>>
       ELSE Strip(SubSeq(content, f + 1,
                         IF m = 0 THEN Len(content) ELSE m - 1))

\* Pass 1: ## <Section>\s*\n(.*?)(?=\n## |\Z), stripped
StrictSection(content, head) ==
    LET h == FirstOf({i \in 1..Len(content) : content[i] = head})
        s == FirstOf({i \in (h + 1)..Len(content) : content[i] # "BLANK"})
        t == FirstOf({i \in (s + 1)..Len(content) : IsH2(content[i])})
    IN IF h = 0 \/ s = 0 THEN <<>>
       ELSE Strip(SubSeq(content, s, IF t = 0 THEN Len(content) ELSE t - 1))

\* Pass 2: \*\*<Section>[^*]*\*\*:?\s*\n(.*?)(?=\n\*\*[A-Z]|\n#{1,6}\s|\n---|\Z)
BoldSection(content, head) ==
    LET h == FirstOf({i \in 1..Len(content) : content[i] = head})
        s == FirstOf({i \in (h + 1)..Len(content) : content[i] # "BLANK"})
        t == FirstOf({i \in (s + 1)..Len(content) :
                         \/ content[i] \in {"BAC", "BPR", "RULE"}
                         \/ IsHeading(content[i])})
    IN IF h = 0 \/ s = 0 THEN <<>>
       ELSE Strip(SubSeq(content, s, IF t = 0 THEN Len(content) ELSE t - 1))

\* The lines of a section that clean to a criterion: the non-blank ones.
Criteria(section) ==
    LET Test(l) == l # "BLANK" IN SelectSeq(section, Test)

\* The [label](path) references of a section, one appended for every match,
\* each standing for its code.
Links(section) ==
    LET Test(l) == l \in {"LINK", "LINKB"} IN SelectSeq(section, Test)

\* number = int(re.search(increment_(\d+), name).group(1)), 0 without match
ParseNumber(name) ==
    IF NumLen(name) >= 1 THEN DigitsToInt(SubSeq(name, 1, NumLen(name)))
    ELSE 0

\* status = "todo" if re.search([-_]todo[-_], name) else "done"
ParseStatus(name) ==
    IF \E i \in 1..(Len(name) - 2) :
          name[i] \in SEP /\ name[i + 1] = "todo" /\ name[i + 2] \in SEP
    THEN "todo" ELSE "done"

\* re.search([-_](?:todo|done)[-_](.+)$, name).group(1), "" without match
ParseShortDesc(name) ==
    LET i == FirstOf({j \in 1..(Len(name) - 3) :
                         /\ name[j] \in SEP
                         /\ name[j + 1] \in {"todo", "done"}
                         /\ name[j + 2] \in SEP})
    IN IF i = 0 THEN <<>> ELSE SubSeq(name, i + 3, Len(name))

parse_increment(fs, path) ==
    LET content == fs[path]
        strict == StrictDescription(content)
    IN [number |-> ParseNumber(path),
        short_desc |-> ParseShortDesc(path),
        status |-> ParseStatus(path),
        description |-> IF strict # <<>> THEN strict
                        ELSE FlexibleDescription(content),
        related_principles |->
            IF Links(StrictSection(content, "HPR")) # <<>>
            THEN Links(StrictSection(content, "HPR"))
            ELSE Links(BoldSection(content, "BPR")),
        acceptance_criteria |->
            IF Criteria(StrictSection(content, "HAC")) # <<>>
            THEN Criteria(StrictSection(content, "HAC"))
            ELSE Criteria(BoldSection(content, "BAC")),
        raw_content |-> content]

\* path.read_text(encoding="utf-8") of parse_increment raises
\* UnicodeDecodeError; no caller catches it.
ParseRaises(fs, path) ==
    /\ path # NoPath
    /\ \E i \in 1..Len(fs[path]) : fs[path][i] = "BYTES"

_is_parse_complete(inc_data) == Strip(inc_data.description) # <<>>

----------------------------------------------------------------------------
(* Prompts: what a rendered text says, not its wording *)

\* sections: the titled sections of a text, in order; listed: the increment
\* numbers a plan lists; commits: the commit hashes it lists; value: what a
\* query or the parser returned; input: what a loader was given.
NoOut == [kind |-> "none", number |-> 0, old_name |-> NoPath,
          new_name |-> NoPath, all_completed |-> FALSE,
          sections |-> <<>>, listed |-> <<>>, commits |-> <<>>,
          value |-> <<>>, input |-> <<>>]

\* A self-inspection prompt that takes a whitespace-only file for content.
format_self_inspection_prompt_untrimmed(fs, increment_path, inc_data) ==
    [NoOut EXCEPT !.kind = IF inc_data.raw_content = <<>>
                           THEN "self_inspection_empty"
                           ELSE "self_inspection_format",
                  !.number = inc_data.number,
                  !.old_name = increment_path,
                  !.sections =
                      IF inc_data.raw_content = <<>>
                      THEN <<"SELF-INSPECTION REQUIRED", "DIAGNOSIS: EMPTY",
                             "ACTION REQUIRED", "WORKFLOW">>
                      ELSE <<"SELF-INSPECTION REQUIRED",
                             "DIAGNOSIS: NON-STANDARD FORMAT",
                             "PARSE RESULTS", "RAW FILE CONTENT",
                             "ACTION REQUIRED", "WORKFLOW">>]

format_self_inspection_prompt(fs, increment_path, inc_data) ==
    [NoOut EXCEPT !.kind = IF Strip(inc_data.raw_content) = <<>>
                           THEN "self_inspection_empty"
                           ELSE "self_inspection_format",
                  !.number = inc_data.number,
                  !.old_name = increment_path,
                  !.sections =
                      IF Strip(inc_data.raw_content) = <<>>
                      THEN <<"SELF-INSPECTION REQUIRED", "DIAGNOSIS: EMPTY",
                             "ACTION REQUIRED", "WORKFLOW">>
                      ELSE <<"SELF-INSPECTION REQUIRED",
                             "DIAGNOSIS: NON-STANDARD FORMAT",
                             "PARSE RESULTS", "RAW FILE CONTENT",
                             "ACTION REQUIRED", "WORKFLOW">>]

format_increment_prompt(fs, increment_path) ==
    LET inc == parse_increment(fs, increment_path) IN
        IF ~_is_parse_complete(inc)
        THEN format_self_inspection_prompt(fs, increment_path, inc)
        ELSE [NoOut EXCEPT !.kind = "increment",
                           !.number = inc.number,
                           !.old_name = increment_path]

format_verification_prompt(fs, increment_path) ==
    LET inc == parse_increment(fs, increment_path) IN
        [NoOut EXCEPT !.kind = "verification",
                      !.number = inc.number,
                      !.old_name = increment_path,
                      !.new_name = DoneName(increment_path)]

format_done_summary(fs, done_path, next_path) ==
    LET inc == parse_increment(fs, done_path) IN
        [NoOut EXCEPT !.kind = "done_summary",
                      !.number = inc.number,
                      !.new_name = done_path,
                      !.all_completed = (next_path = NoPath)]

IsSelfInspection(out) ==
    out.kind \in {"self_inspection_empty", "self_inspection_format"}

----------------------------------------------------------------------------
(* OrganismState and advance_generation *)

\* Two of the five perspectives of models.py.
Perspective == {"user", "test"}

\* What analyze() returns for the project at hand, in percent.
Fitness(perspective) == IF perspective = "user" THEN 50 ELSE 100

GitHashes == {"", "a1b2c3d4"}

EmptyScores == [p \in {} |-> 0]

\* The "overall" key is absent from a history entry.
NoOverall == <<>>

RECURSIVE SumScores(_)
\* sum(scores.values())
SumScores(scores) ==
    IF DOMAIN scores = {} THEN 0
    ELSE LET p == CHOOSE q \in DOMAIN scores : TRUE
         IN scores[p] + SumScores([q \in DOMAIN scores \ {p} |-> scores[q]])

\* sum(scores.values()) / len(scores), as the fraction <<numerator, denominator>>
MeanScores(scores) == <<SumScores(scores), Cardinality(DOMAIN scores)>>

\* Stages that begin one generation early.
get_stage_early(gen) ==
    IF gen < 3 THEN "embryonic"
    ELSE IF gen < 10 THEN "growth"
    ELSE IF gen < 20 THEN "maturation"
    ELSE "homeostasis"

get_stage(gen) ==
    IF gen <= 3 THEN "embryonic"
    ELSE IF gen <= 10 THEN "growth"
    ELSE IF gen <= 20 THEN "maturation"
    ELSE "homeostasis"

\* An entry whose mean also counts the "overall" key being added.
HistoryEntryMiscounted(gen, scores) ==
    [generation |-> gen,
     scores |-> scores,
     overall |-> IF DOMAIN scores # {}
                 THEN <<SumScores(scores), Cardinality(DOMAIN scores) + 1>>
                 ELSE NoOverall]

\* core.py: the entry advance_generation appends (its timestamp left out).
HistoryEntry(gen, scores) ==
    [generation |-> gen,
     scores |-> scores,
     overall |-> IF DOMAIN scores # {} THEN MeanScores(scores)
                 ELSE NoOverall]

\* organism.py and lib/core.py: the older entry, without "overall".
LegacyHistoryEntry(gen, scores) ==
    [generation |-> gen, scores |-> scores, overall |-> NoOverall]

\* core.py advance_generation; hash is what get_current_hash returns.
advance_generation(hash) ==
    /\ fitness_history' =
           Append(fitness_history, HistoryEntry(generation, fitness_scores))
    /\ last_git_hash' = hash
    /\ generation' = generation + 1
    /\ development_stage' = get_stage(generation + 1)
    /\ UNCHANGED fitness_scores

\* organism.py and lib/core.py advance_generation.
legacy_advance_generation(hash) ==
    /\ fitness_history' =
           Append(fitness_history,
                  LegacyHistoryEntry(generation, fitness_scores))
    /\ last_git_hash' = hash
    /\ generation' = generation + 1
    /\ development_stage' = get_stage(generation + 1)
    /\ UNCHANGED fitness_scores

----------------------------------------------------------------------------
(* GitAnalyzer: the read-only git queries *)

Hashes == {"a1", "b2", "c3"}

\* The tags get_commits_for_increment greps for: "INCREMENT nnnn" and
\* "increment_nnnn".
Tag(spelling, increment_number) == <<spelling, increment_number>>

TagPool == {Tag("INCREMENT", 2), Tag("increment_", 2)}

\* A commit: its hash and the tags its message holds.
Commits == [hash : Hashes, tags : SUBSET TagPool]

RECURSIVE Logs(_)
\* The logs of at most k commits, newest first, no hash twice.
Logs(k) ==
    IF k = 0 THEN {<<>>}
    ELSE LET shorter == Logs(k - 1)
             grown == {Append(l, c) :
                          l \in {m \in shorter : Len(m) = k - 1},
                          c \in Commits}
         IN shorter \cup
            {l \in grown : \A i \in 1..(k - 1) : l[i].hash # l[k].hash}

\* state: "ok" a repository, "not_repo" a directory that is none (git exits
\* with an error and prints nothing on stdout), "no_git" no git binary
\* (subprocess.run raises).
\* A project root without history: no commit yet, or no repository at all.
NoRepo(state) == [state |-> state,
                  branch |-> IF state = "ok" THEN "main" ELSE "",
                  worktree |-> <<>>, log |-> <<>>]

Raises(r) == r.state = "no_git"

\* The lines git log --all --grep=<tag> prints.
GitLog(r, tag) ==
    LET Test(c) == tag \in c.tags IN
        IF r.state = "ok" THEN SelectSeq(r.log, Test) ELSE <<>>

\* get_current_hash: rev-parse prints "HEAD" for a repository with no commit.
get_current_hash(r) ==
    IF Raises(r) THEN ""
    ELSE IF r.state # "ok" THEN ""
    ELSE IF r.log = <<>> THEN "HEAD"
    ELSE r.log[1].hash

get_recent_commits(r, count) ==
    IF Raises(r) THEN <<>>
    ELSE IF r.state # "ok" THEN <<>>
    ELSE SubSeq(r.log, 1, IF Len(r.log) < count THEN Len(r.log) ELSE count)

get_uncommitted_changes(r) ==
    IF Raises(r) THEN <<>>
    ELSE IF r.state # "ok" THEN <<>>
    ELSE r.worktree

get_branch(r) ==
    IF Raises(r) THEN "unknown"
    ELSE IF r.state # "ok" THEN ""
    ELSE r.branch

\* The files of the last commit, named by the commit; diff-tree prints
\* nothing for a commit without parent.
get_changed_files_in_last_commit(r) ==
    IF Raises(r) THEN <<>>
    ELSE IF r.state # "ok" \/ Len(r.log) < 2 THEN <<>>
    ELSE <<r.log[1].hash>>

\* A merge that keeps every line of both searches.
MergeKeepingAll(lines) == lines

RECURSIVE MergeFirstSeen(_)
\* The loop over lines + lines2: a hash already seen is skipped.
MergeFirstSeen(lines) ==
    IF lines = <<>> THEN <<>>
    ELSE LET before == MergeFirstSeen(SubSeq(lines, 1, Len(lines) - 1))
             line == lines[Len(lines)]
         IN IF \E i \in 1..Len(before) : before[i].hash = line.hash
            THEN before
            ELSE Append(before, line)

get_commits_for_increment(r, increment_number) ==
    IF Raises(r) THEN <<>>
    ELSE MergeFirstSeen(GitLog(r, Tag("INCREMENT", increment_number))
                        \o GitLog(r, Tag("increment_", increment_number)))

\* The --stat of a commit against its parent, named by the commit; "" for a
\* commit without parent or an unknown one.
get_diff_for_commit(r, commit_hash) ==
    IF Raises(r) THEN ""
    ELSE IF r.state # "ok" THEN ""
    ELSE IF \E i \in 1..(Len(r.log) - 1) : r.log[i].hash = commit_hash
    THEN commit_hash
    ELSE ""

----------------------------------------------------------------------------
(* Initial states *)

NumPool == {<<"0", "0", "0", "2">>, <<"0", "0", "1", "0">>, <<"9">>}

RestPool ==
    {<<"_", "todo", "_", "x">>,
     <<"-", "todo", "-", "x">>,
     <<"_", "done", "_", "x">>,
     <<"-", "todo", "_", "x">>,
     <<"_", "todo", "_", "x", "-", "todo", "-", "x">>}

NamePool == {d \o r : d \in NumPool, r \in RestPool}

ContentPool ==
    {<<>>,
     <<"H3", "TXT", "BAC", "ITEM">>}

RECURSIVE SubsetsUpTo(_, _)
\* The subsets of S with at most k elements.
SubsetsUpTo(S, k) ==
    IF k = 0 THEN {{}}
    ELSE LET prev == SubsetsUpTo(S, k - 1)
         IN prev \cup {T \cup {x} : T \in prev, x \in S}

Directories == UNION {[S -> ContentPool] : S \in SubsetsUpTo(NamePool, MaxFiles)}

Op(name) == [op |-> name, passed |-> FALSE, raised |-> FALSE,
             path |-> NoPath, out |-> NoOut]

FreshState ==
    /\ lastShown = 0
    /\ generation = 0
    /\ development_stage = "embryonic"
    /\ fitness_scores = EmptyScores
    /\ fitness_history = <<>>
    /\ last_git_hash = ""
    /\ last = Op("init")

Init ==
    /\ files \in Directories
    /\ FreshState
    /\ repo = NoRepo("ok")

\* The directories of the tracker's own specification: one number, every
\* shape of name, every kind of body.
TrackerNamePool ==
    {<<"0", "0", "0", "2">> \o r :
        r \in RestPool \cup {<<"_", "done", "_", "x", "_", "todo", "_", "x">>}}

TrackerContentPool ==
    ContentPool \cup {<<"TXT">>,
                      <<"H1", "BAC", "ITEM">>,
                      <<"H1", "HDESC", "BLANK", "TXT", "HAC", "ITEM">>}

TrackerDirectories ==
    UNION {[S -> TrackerContentPool] :
              S \in SubsetsUpTo(TrackerNamePool, MaxFiles)}

InitTracker ==
    /\ files \in TrackerDirectories
    /\ FreshState
    /\ repo = NoRepo("ok")

----------------------------------------------------------------------------
(* IncrementTracker's methods, called one at a time *)

\* mark_done(increment_path): rename, replacing an existing target (POSIX)
\* or raising FileExistsError and leaving the directory alone (Windows).
MarkDone(increment_path) ==
    /\ increment_path \in DOMAIN files
    /\ PatternMatch(increment_path, "todo")
    /\ LET new_path == DoneName(increment_path) IN
          \/ /\ files' = Rename(files, increment_path, new_path)
             /\ last' = [Op("mark_done") EXCEPT
                            !.path = increment_path,
                            !.out = [NoOut EXCEPT !.old_name = increment_path,
                                                  !.new_name = new_path]]
          \/ /\ new_path # increment_path
             /\ new_path \in DOMAIN files
             /\ files' = files
             /\ last' = [Op("mark_done") EXCEPT !.path = increment_path,
                                                !.raised = TRUE]
    /\ UNCHANGED <<lastShown, orgVars, repo>>

FormatIncrementPrompt(increment_path) ==
    /\ increment_path \in DOMAIN files
    /\ last' =
           IF ParseRaises(files, increment_path)
           THEN [Op("format_increment_prompt") EXCEPT
                    !.path = increment_path, !.raised = TRUE]
           ELSE [Op("format_increment_prompt") EXCEPT
                    !.path = increment_path,
                    !.out = format_increment_prompt(files, increment_path)]
    /\ UNCHANGED <<files, lastShown, orgVars, repo>>

\* A verification prompt that performs the rename it should only describe.
FormatVerificationPromptRenaming(increment_path) ==
    /\ increment_path \in DOMAIN files
    /\ files' = Rename(files, increment_path, DoneName(increment_path))
    /\ last' = [Op("format_verification_prompt") EXCEPT
                   !.path = increment_path,
                   !.out = format_verification_prompt(files, increment_path)]
    /\ UNCHANGED <<lastShown, orgVars, repo>>

FormatVerificationPrompt(increment_path) ==
    /\ increment_path \in DOMAIN files
    /\ last' = [Op("format_verification_prompt") EXCEPT
                   !.path = increment_path,
                   !.out = format_verification_prompt(files, increment_path)]
    /\ UNCHANGED <<files, lastShown, orgVars, repo>>

NextTracker ==
    \/ \E p \in DOMAIN files : MarkDone(p)
    \/ \E p \in DOMAIN files : FormatIncrementPrompt(p)
    \/ \E p \in DOMAIN files : FormatVerificationPrompt(p)

SpecTracker == InitTracker /\ [][NextTracker]_vars

\* The tracker working through a directory of Todo files: mark_done on the
\* file current_todo returns, again and again.
InitOrder ==
    /\ files \in {fs \in Directories :
                     \A p \in DOMAIN fs : PatternMatch(p, "todo")}
    /\ FreshState
    /\ repo = NoRepo("ok")

NextOrder == current_todo(files) # NoPath /\ MarkDone(current_todo(files))

SpecOrder == InitOrder /\ [][NextOrder]_vars

----------------------------------------------------------------------------
(* The parser and the prompt of an increment, over every shape of body *)

\* parse_increment(path), on any file of the directory.
ParseIncrement(path) ==
    /\ path \in DOMAIN files
    /\ last' =
           IF ParseRaises(files, path)
           THEN [Op("parse_increment") EXCEPT !.path = path, !.raised = TRUE]
           ELSE [Op("parse_increment") EXCEPT
                    !.path = path,
                    !.out = [NoOut EXCEPT
                                !.value = parse_increment(files, path)]]
    /\ UNCHANGED <<files, lastShown, orgVars, repo>>

ParserNamePool ==
    TrackerNamePool \cup {<<"0", "0", "0", "2", "-", "done", "-", "x">>}

ParserContentPool ==
    TrackerContentPool
    \cup {<<"BLANK">>,
          <<"BYTES">>,
          <<"H3", "TXT", "BPR", "LINK", "LINKB", "LINK">>}

ParserDirectories ==
    UNION {[S -> ParserContentPool] :
              S \in SubsetsUpTo(ParserNamePool, MaxFiles)}

InitParser ==
    /\ files \in ParserDirectories
    /\ FreshState
    /\ repo = NoRepo("ok")

NextParser ==
    \/ \E p \in DOMAIN files : ParseIncrement(p)
    \/ \E p \in DOMAIN files : FormatIncrementPrompt(p)

SpecParser == InitParser /\ [][NextParser]_vars

----------------------------------------------------------------------------
(* LifecycleController: the two requests of the command line *)

\* A request for "current work" that never persists what it has shown.
CurrentWorkForgetting ==
    LET current == current_todo(files) IN
        /\ current # NoPath
        /\ last' = [Op("current_work") EXCEPT
                       !.path = current,
                       !.out = IF lastShown # parse_increment(files,
                                                             current).number
                               THEN format_increment_prompt(files, current)
                               ELSE format_verification_prompt(files,
                                                               current)]
        /\ UNCHANGED <<files, lastShown, orgVars, repo>>

\* A request for "current work": the increment prompt on first display of an
\* increment, the verification prompt on a repeat, the terminal message when
\* no Todo increment is left.
CurrentWork ==
    LET current == current_todo(files) IN
        /\ IF current = NoPath
           THEN /\ last' = [Op("current_work") EXCEPT
                               !.out = [NoOut EXCEPT !.kind = "all_done",
                                                     !.all_completed = TRUE]]
                /\ UNCHANGED lastShown
           ELSE LET number == parse_increment(files, current).number IN
                IF lastShown # number
                THEN /\ last' = [Op("current_work") EXCEPT
                                    !.path = current,
                                    !.out = format_increment_prompt(files,
                                                                    current)]
                     /\ lastShown' = number
                ELSE /\ last' = [Op("current_work") EXCEPT
                                    !.path = current,
                                    !.out = format_verification_prompt(files,
                                                                       current)]
                     /\ UNCHANGED lastShown
        /\ UNCHANGED <<files, orgVars, repo>>

\* An advance that renames and advances whatever the gate says.
AdvanceIgnoringGate(passed, hash, saved) ==
    LET current == current_todo(files)
        new_path == DoneName(current)
    IN  /\ generation < MaxGen
        /\ current # NoPath
        /\ files' = Rename(files, current, new_path)
        /\ advance_generation(hash)
        /\ last' = [Op("advance") EXCEPT
                       !.path = current,
                       !.passed = passed,
                       !.out = format_done_summary(files', new_path,
                                                   current_todo(files'))]
        /\ UNCHANGED <<lastShown, repo>>

\* save(path) raised: open(path, "w") failed and the state file is as it
\* was, or the file was opened, which empties it, and json.dump failed, and
\* the next load finds no JSON and returns a fresh state.  What
\* advance_generation changed in memory is gone with the process.
SaveFails ==
    \/ UNCHANGED orgVars
    \/ /\ generation' = 0
       /\ development_stage' = "embryonic"
       /\ fitness_scores' = EmptyScores
       /\ fitness_history' = <<>>
       /\ last_git_hash' = ""

\* An advance that renames the file back when the state cannot be saved.
AdvanceRollingBack(passed, hash, saved) ==
    LET current == current_todo(files)
        new_path == DoneName(current)
    IN  /\ generation < MaxGen
        /\ current # NoPath
        /\ \/ /\ ~passed
              /\ last' = [Op("advance") EXCEPT
                             !.path = current,
                             !.out = [NoOut EXCEPT !.kind = "gate_failure"]]
              /\ UNCHANGED <<files, lastShown, orgVars, repo>>
           \/ /\ passed
              /\ new_path # current
              /\ new_path \in DOMAIN files
              /\ last' = [Op("advance") EXCEPT !.path = current,
                                               !.passed = TRUE,
                                               !.raised = TRUE]
              /\ UNCHANGED <<files, lastShown, orgVars, repo>>
           \/ /\ passed
              /\ saved
              /\ files' = Rename(files, current, new_path)
              /\ advance_generation(hash)
              /\ last' = [Op("advance") EXCEPT
                             !.path = current,
                             !.passed = TRUE,
                             !.out = format_done_summary(files', new_path,
                                                         current_todo(files'))]
              /\ UNCHANGED <<lastShown, repo>>
           \/ /\ passed
              /\ ~saved
              /\ SaveFails
              /\ last' = [Op("advance") EXCEPT
                             !.path = current,
                             !.passed = TRUE,
                             !.raised = TRUE,
                             !.out = [NoOut EXCEPT !.old_name = current,
                                                   !.new_name = new_path]]
              /\ UNCHANGED <<files, lastShown, repo>>

\* The explicit "advance": the test gate, then mark_done, advance_generation
\* and the done summary.  passed is what runTests returns, hash what
\* get_current_hash returns, saved whether save could write the state file.
\* When mark_done has renamed and save raises, the exception reaches the
\* caller and the file keeps its done name.
Advance(passed, hash, saved) ==
    LET current == current_todo(files)
        new_path == DoneName(current)
    IN  /\ generation < MaxGen
        /\ current # NoPath
        /\ \/ /\ ~passed
              /\ last' = [Op("advance") EXCEPT
                             !.path = current,
                             !.out = [NoOut EXCEPT !.kind = "gate_failure"]]
              /\ UNCHANGED <<files, lastShown, orgVars, repo>>
           \/ /\ passed
              /\ new_path # current
              /\ new_path \in DOMAIN files
              /\ last' = [Op("advance") EXCEPT !.path = current,
                                               !.passed = TRUE,
                                               !.raised = TRUE]
              /\ UNCHANGED <<files, lastShown, orgVars, repo>>
           \/ /\ passed
              /\ saved
              /\ files' = Rename(files, current, new_path)
              /\ advance_generation(hash)
              /\ last' = [Op("advance") EXCEPT
                             !.path = current,
                             !.passed = TRUE,
                             !.out = format_done_summary(files', new_path,
                                                         current_todo(files'))]
              /\ UNCHANGED <<lastShown, repo>>
           \/ /\ passed
              /\ ~saved
              /\ files' = Rename(files, current, new_path)
              /\ SaveFails
              /\ last' = [Op("advance") EXCEPT
                             !.path = current,
                             !.passed = TRUE,
                             !.raised = TRUE,
                             !.out = [NoOut EXCEPT !.old_name = current,
                                                   !.new_name = new_path]]
              /\ UNCHANGED <<lastShown, repo>>

Next ==
    \/ CurrentWork
    \/ \E passed \in BOOLEAN : Advance(passed, "a1b2c3d4", TRUE)

Spec == Init /\ [][Next]_vars

\* The two requests where the state file cannot always be written.
PersistNamePool ==
    {<<"0", "0", "0", "2", "_", "todo", "_", "x">>,
     <<"0", "0", "0", "2", "_", "done", "_", "x">>,
     <<"0", "0", "1", "0", "-", "todo", "-", "x">>}

PersistDirectories ==
    UNION {[S -> ContentPool] : S \in SubsetsUpTo(PersistNamePool, MaxFiles)}

InitPersist ==
    /\ files \in PersistDirectories
    /\ FreshState
    /\ repo = NoRepo("ok")

NextPersist ==
    \/ CurrentWork
    \/ \E passed \in BOOLEAN, hash \in GitHashes, saved \in BOOLEAN :
          Advance(passed, hash, saved)

SpecPersist == InitPersist /\ [][NextPersist]_vars

----------------------------------------------------------------------------
(* SelfDevelopmentOrganism: perspectives and generations *)

OrgDirectory ==
    [p \in {<<"0", "0", "0", "2", "_", "todo", "_", "x">>,
            <<"0", "0", "1", "0", "-", "todo", "-", "x">>} |->
        <<"H3", "TXT", "BAC", "ITEM">>]

InitOrg ==
    /\ files = OrgDirectory
    /\ FreshState
    /\ repo = NoRepo("ok")

\* run_perspective: the perspective's fitness is stored in the state.
RunPerspective(perspective) ==
    /\ fitness_scores' =
           [q \in DOMAIN fitness_scores \cup {perspective} |->
               IF q = perspective THEN Fitness(perspective)
               ELSE fitness_scores[q]]
    /\ last' = Op("run_perspective")
    /\ UNCHANGED <<files, lastShown, generation, development_stage,
                   fitness_history, last_git_hash, repo>>

\* core.py advance_generation, called on its own.
AdvanceGeneration(hash) ==
    /\ advance_generation(hash)
    /\ last' = Op("advance_generation")
    /\ UNCHANGED <<files, lastShown, repo>>

\* organism.py main(): --advance calls the older advance_generation.
LegacyAdvanceGeneration(hash) ==
    /\ generation < MaxGen
    /\ legacy_advance_generation(hash)
    /\ last' = Op("legacy_advance_generation")
    /\ UNCHANGED <<files, lastShown, repo>>

NextOrg ==
    \/ \E perspective \in Perspective : RunPerspective(perspective)
    \/ \E passed \in BOOLEAN, hash \in GitHashes :
          Advance(passed, hash, TRUE)
    \/ \E hash \in GitHashes :
          generation < MaxGen /\ AdvanceGeneration(hash)
    \/ \E hash \in GitHashes : LegacyAdvanceGeneration(hash)

SpecOrg == InitOrg /\ [][NextOrg]_vars

\* The organism from its fresh state through all four stages.
NextStages ==
    \/ \E perspective \in Perspective : RunPerspective(perspective)
    \/ generation < MaxStageGen /\ AdvanceGeneration("a1b2c3d4")

SpecStages == InitOrg /\ [][NextStages]_vars

----------------------------------------------------------------------------
(* The revert planner: format_revert_prompt, format_revert_from_prompt, *)
(* format_redo_prompt *)

DigitChar(v) == CHOOSE d \in Digits : DigitVal(d) = v

RECURSIVE IntToDigits(_)
IntToDigits(n) ==
    IF n < 10 THEN <<DigitChar(n)>>
    ELSE Append(IntToDigits(n \div 10), DigitChar(n % 10))

\* f"{number:04d}"
Format04(number) ==
    LET ds == IntToDigits(number) IN
        IF Len(ds) >= 4 THEN ds
        ELSE [i \in 1..(4 - Len(ds)) |-> "0"] \o ds

\* re.search([-_]done[-_], name)
HasDoneToken(name) ==
    \E i \in 1..(Len(name) - 2) :
        name[i] \in SEP /\ name[i + 1] = "done" /\ name[i + 2] \in SEP

\* The first file, in sorted order, that matches
\* increment_<number:04d>[-_](?:todo|done)[-_].+\.md$, None without one.
_find_increment_file(fs, number) ==
    LET k == Len(Format04(number))
        found == {p \in DOMAIN fs :
                     /\ Len(p) >= k + 4
                     /\ SubSeq(p, 1, k) = Format04(number)
                     /\ p[k + 1] \in SEP
                     /\ p[k + 2] \in {"todo", "done"}
                     /\ p[k + 3] \in SEP}
    IN IF found = {} THEN NoPath
       ELSE CHOOSE p \in found : \A q \in found \ {p} : PathLess(p, q)

\* The todo name the POST-REVERT hint of format_revert_prompt computes.
TodoName(done_name) ==
    IF Find(done_name, <<"-", "done", "-">>) # 0
    THEN ReplaceFirst(done_name, <<"-", "done", "-">>, <<"-", "todo", "-">>)
    ELSE ReplaceFirst(done_name, <<"_", "done", "_">>, <<"_", "todo", "_">>)

\* The hashes of a list of commits.
HashesOf(commits) == [i \in 1..Len(commits) |-> commits[i].hash]

\* The lines under GIT COMMITS FOR THIS INCREMENT when no commit was found.
NoCommitsLines(commits) ==
    IF commits = <<>> THEN <<"No commits found", "Search manually">>
    ELSE <<>>

format_revert_prompt(fs, r, increment_number) ==
    LET commits == get_commits_for_increment(r, increment_number)
        inc_file == _find_increment_file(fs, increment_number)
        hint == inc_file # NoPath /\ HasDoneToken(inc_file)
    IN [NoOut EXCEPT
           !.kind = "revert",
           !.number = increment_number,
           !.commits = HashesOf(commits),
           !.old_name = IF hint THEN inc_file ELSE NoPath,
           !.new_name = IF hint THEN TodoName(inc_file) ELSE NoPath,
           !.sections =
               <<"REVERT INCREMENT", "OBJECTIVE",
                 "GIT COMMITS FOR THIS INCREMENT">>
               \o NoCommitsLines(commits)
               \o <<"STEPS">>
               \o (IF hint THEN <<"POST-REVERT">> ELSE <<>>)]

\* range(from_increment, current_num - 1, -1)
RangeDown(from_increment, current_num) ==
    IF from_increment < current_num THEN <<>>
    ELSE [i \in 1..(from_increment - current_num + 1) |->
             from_increment - i + 1]

\* The lower bound format_revert_from_prompt walks down to.
RevertBound(fs) ==
    LET current == current_todo(fs)
        current_num == IF current # NoPath
                       THEN parse_increment(fs, current).number
                       ELSE 0
        done_files == _increment_files(fs, "done")
    IN IF current_num = 0 /\ done_files # <<>>
       THEN parse_increment(fs, done_files[Len(done_files)]).number
       ELSE current_num

\* Whether a parse_increment of format_revert_from_prompt raises: of the
\* current Todo file, of the last Done file when that gives the bound, or of
\* the file of a listed increment.
RevertFromRaises(fs, from_increment) ==
    LET current == current_todo(fs)
        done_files == _increment_files(fs, "done")
    IN \/ ParseRaises(fs, current)
       \/ /\ (current = NoPath \/ ParseNumber(current) = 0)
          /\ done_files # <<>>
          /\ ParseRaises(fs, done_files[Len(done_files)])
       \/ \E i \in 1..Len(RangeDown(from_increment, RevertBound(fs))) :
              ParseRaises(fs, _find_increment_file(
                  fs, RangeDown(from_increment, RevertBound(fs))[i]))

RECURSIVE CommitsOfAll(_, _)
\* The commits listed under the increments of a range, in its order.
CommitsOfAll(r, nums) ==
    IF nums = <<>> THEN <<>>
    ELSE HashesOf(get_commits_for_increment(r, nums[1]))
         \o CommitsOfAll(r, SubSeq(nums, 2, Len(nums)))

format_revert_from_prompt(fs, r, from_increment) ==
    LET current_num == RevertBound(fs)
        listed == RangeDown(from_increment, current_num)
    IN [NoOut EXCEPT
           !.kind = "revert_from",
           !.number = current_num,
           !.value = from_increment,
           !.listed = listed,
           !.commits = CommitsOfAll(r, listed),
           !.sections = <<"REVERT INCREMENTS", "OBJECTIVE",
                          "INCREMENTS TO REVERT", "STEPS", "POST-REVERT">>]

\* The part of the redo prompt after its AFTER REVERT banner; inc is None
\* (NoPath) when the file was not found.
RedoRequirement(inc, principles) ==
    IF inc # NoPath /\ inc.description # <<>>
    THEN <<"REQUIREMENT">>
         \o (IF inc.acceptance_criteria # <<>>
             THEN <<"ACCEPTANCE CRITERIA">> ELSE <<>>)
         \o (IF principles # <<>>
             THEN <<"APPLICABLE PRINCIPLES">> ELSE <<>>)
    ELSE <<"Increment file not found or empty">>

\* stored: whether the principles directory holds the documents referred to.
format_redo_prompt(fs, r, increment_number, stored) ==
    LET revert_section == format_revert_prompt(fs, r, increment_number)
        inc_file == _find_increment_file(fs, increment_number)
        inc == IF inc_file # NoPath THEN parse_increment(fs, inc_file)
               ELSE NoPath
        principles == IF inc_file # NoPath /\ stored
                      THEN inc.related_principles ELSE <<>>
    IN [revert_section EXCEPT
           !.kind = "redo",
           !.value = IF inc # NoPath THEN inc.description ELSE <<>>,
           !.sections = revert_section.sections
                        \o <<"AFTER REVERT">>
                        \o RedoRequirement(inc, principles)
                        \o <<"WORKFLOW">>]

RevertNumbers == {1, 2}

RevertFromNumbers == {2, 11}

\* What is left of a call that raised: its name and its argument.
Raised(name, argument) ==
    [Op(name) EXCEPT !.raised = TRUE,
                     !.out = [NoOut EXCEPT !.number = argument]]

\* A revert prompt that also resets the persisted shown-increment number.
FormatRevertPromptResetting(increment_number) ==
    /\ last' = [Op("format_revert_prompt") EXCEPT
                   !.out = format_revert_prompt(files, repo,
                                                increment_number)]
    /\ lastShown' = 0
    /\ UNCHANGED <<files, orgVars, repo>>

FormatRevertPrompt(increment_number) ==
    /\ last' =
           IF ParseRaises(files,
                          _find_increment_file(files, increment_number))
           THEN Raised("format_revert_prompt", increment_number)
           ELSE [Op("format_revert_prompt") EXCEPT
                    !.out = format_revert_prompt(files, repo,
                                                 increment_number)]
    /\ UNCHANGED <<files, lastShown, orgVars, repo>>

FormatRevertFromPrompt(from_increment) ==
    /\ last' =
           IF RevertFromRaises(files, from_increment)
           THEN [Raised("format_revert_from_prompt", 0) EXCEPT
                    !.out.value = from_increment]
           ELSE [Op("format_revert_from_prompt") EXCEPT
                    !.out = format_revert_from_prompt(files, repo,
                                                      from_increment)]
    /\ UNCHANGED <<files, lastShown, orgVars, repo>>

\* A redo prompt that performs the rename its hint describes.
FormatRedoPromptRenaming(increment_number, stored) ==
    LET out == format_redo_prompt(files, repo, increment_number, stored) IN
        /\ ~ParseRaises(files,
                        _find_increment_file(files, increment_number))
        /\ last' = [Op("format_redo_prompt") EXCEPT !.out = out]
        /\ files' = IF out.old_name # NoPath
                    THEN Rename(files, out.old_name, out.new_name)
                    ELSE files
        /\ UNCHANGED <<lastShown, orgVars, repo>>

FormatRedoPrompt(increment_number, stored) ==
    /\ last' =
           IF ParseRaises(files,
                          _find_increment_file(files, increment_number))
           THEN Raised("format_redo_prompt", increment_number)
           ELSE [Op("format_redo_prompt") EXCEPT
                    !.out = format_redo_prompt(files, repo,
                                               increment_number, stored)]
    /\ UNCHANGED <<files, lastShown, orgVars, repo>>

\* A repository whose two commits both belong to increment 0002, the newer
\* one tagged in both spellings.
TaggedRepo ==
    [state |-> "ok", branch |-> "main", worktree |-> <<>>,
     log |-> <<[hash |-> "a1", tags |-> TagPool],
               [hash |-> "b2", tags |-> {Tag("INCREMENT", 2)}]>>]

RevertRepoPool == {NoRepo("no_git"), NoRepo("ok"), TaggedRepo}

RevertNamePool ==
    {<<"0", "0", "0", "0", "_", "todo", "_", "x">>,
     <<"0", "0", "0", "1", "_", "done", "_", "x">>,
     <<"0", "0", "0", "2", "-", "done", "-", "x">>,
     <<"0", "0", "0", "2", "_", "done", "_", "x", "-", "done", "-", "x">>,
     <<"0", "0", "0", "2", "_", "todo", "_", "x", "-", "done", "-", "x">>,
     <<"0", "0", "1", "0", "_", "todo", "_", "x">>,
     <<"9", "_", "todo", "_", "x">>}

RevertContentPool ==
    {<<>>,
     <<"BYTES">>,
     <<"H3", "TXT", "BAC", "ITEM", "BPR", "LINK">>}

RevertDirectories ==
    UNION {[S -> RevertContentPool] :
              S \in SubsetsUpTo(RevertNamePool, MaxFiles)}

InitRevert ==
    /\ files \in RevertDirectories
    /\ FreshState
    /\ repo \in RevertRepoPool

NextRevert ==
    \/ \E n \in RevertNumbers : FormatRevertPrompt(n)
    \/ \E n \in RevertFromNumbers : FormatRevertFromPrompt(n)
    \/ \E n \in RevertNumbers, stored \in BOOLEAN : FormatRedoPrompt(n, stored)

SpecRevert == InitRevert /\ [][NextRevert]_vars

----------------------------------------------------------------------------
(* The command line as a whole: current work, advance, verification and *)
(* the revert planner *)

LifecycleNamePool ==
    {<<"0", "0", "0", "1", "_", "done", "_", "x">>,
     <<"0", "0", "0", "2", "_", "done", "_", "x">>,
     <<"0", "0", "0", "2", "_", "todo", "_", "x">>,
     <<"0", "0", "1", "0", "-", "todo", "-", "x">>}

LifecycleDirectories ==
    UNION {[S -> ContentPool] :
              S \in SubsetsUpTo(LifecycleNamePool, MaxFiles)}

InitLifecycle ==
    /\ files \in LifecycleDirectories
    /\ FreshState
    /\ repo \in {NoRepo("ok"), TaggedRepo}

NextLifecycle ==
    \/ CurrentWork
    \/ \E passed \in BOOLEAN : Advance(passed, "a1b2c3d4", TRUE)
    \/ \E p \in DOMAIN files : FormatVerificationPrompt(p)
    \/ \E n \in RevertNumbers : FormatRevertPrompt(n)
    \/ \E n \in RevertFromNumbers : FormatRevertFromPrompt(n)
    \/ \E n \in RevertNumbers, stored \in BOOLEAN : FormatRedoPrompt(n, stored)

SpecLifecycle == InitLifecycle /\ [][NextLifecycle]_vars

----------------------------------------------------------------------------
(* GitAnalyzer's queries, called one at a time *)

GitRepoPool ==
    {NoRepo("no_git"), NoRepo("not_repo")}
    \cup {[state |-> "ok", branch |-> "main", worktree |-> w, log |-> l] :
             w \in {<<>>, <<"?? d">>}, l \in Logs(MaxCommits)}

InitGit ==
    /\ files = OrgDirectory
    /\ FreshState
    /\ repo \in GitRepoPool

\* A query: its name, its argument and what it returned.
Query(name, argument, value) ==
    /\ last' = [Op(name) EXCEPT !.out = [NoOut EXCEPT !.number = argument,
                                                      !.value = value]]
    /\ UNCHANGED <<files, lastShown, orgVars, repo>>

NextGit ==
    \/ Query("get_current_hash", 0, get_current_hash(repo))
    \/ \E count \in 1..MaxCommits :
          Query("get_recent_commits", count, get_recent_commits(repo, count))
    \/ Query("get_uncommitted_changes", 0, get_uncommitted_changes(repo))
    \/ Query("get_branch", 0, get_branch(repo))
    \/ Query("get_changed_files_in_last_commit", 0,
             get_changed_files_in_last_commit(repo))
    \/ \E n \in RevertNumbers :
          Query("get_commits_for_increment", n,
                get_commits_for_increment(repo, n))
    \/ \E h \in Hashes :
          Query("get_diff_for_commit", 0, get_diff_for_commit(repo, h))

SpecGit == InitGit /\ [][NextGit]_vars

----------------------------------------------------------------------------
(* OrganismState.load: the state file organism_state.json *)

\* A JSON value: its type, and its number, its text or its items.
JInt(n) == [type |-> "int", num |-> n, text |-> "", items |-> <<>>]

JStr(text) == [type |-> "str", num |-> 0, text |-> text, items |-> <<>>]

JList(items) == [type |-> "list", num |-> 0, text |-> "", items |-> items]

\* Four of the fields of the OrganismState dataclass of models.py, with
\* their defaults.
KnownFields ==
    {"generation", "fitness_history", "last_git_hash",
     "requirements_last_checked"}

\* organism.py and lib/models.py: the dataclass has no
\* requirements_last_checked.
LegacyKnownFields == KnownFields \ {"requirements_last_checked"}

DefaultValue(field) ==
    IF field = "generation" THEN JInt(0)
    ELSE IF field = "fitness_history" THEN JList(<<>>)
    ELSE JStr("")

\* cls(): every field at its default.
DefaultState(fields) == [f \in fields |-> DefaultValue(f)]

\* The values a key of the state file is given: for generation and
\* fitness_history one of the field's type and one of another type.
JsonValues(key) ==
    IF key = "generation" THEN {JInt(2), JStr("abc")}
    ELSE IF key = "fitness_history" THEN {JList(<<0, 1>>), JInt(7)}
    ELSE IF key = "last_git_hash" THEN {JStr("a1b2c3d4")}
    ELSE IF key = "requirements_last_checked" THEN {JStr("2026-01-01")}
    ELSE {JInt(1)}

\* "zzz" is a field of no dataclass.
JsonKeys == KnownFields \cup {"zzz"}

NoData == [k \in {} |-> JInt(0)]

\* What the path holds: nothing ("missing"), bytes that are not UTF-8
\* ("bytes"), text that is not JSON ("invalid"), a JSON array, null, number
\* or string, or a JSON object.
StateFile(kind, data) == [kind |-> kind, data |-> data]

JsonObjects ==
    UNION {{d \in [K -> UNION {JsonValues(k) : k \in K}] :
                \A k \in K : d[k] \in JsonValues(k)} : K \in SUBSET JsonKeys}

StateFiles ==
    {StateFile(kind, NoData) :
        kind \in {"missing", "bytes", "invalid", "array", "null", "number",
                  "string"}}
    \cup {StateFile("object", d) : d \in JsonObjects}

\* cls(**data): the given fields as given, the others at their defaults.
FromData(data, fields) ==
    [f \in fields |-> IF f \in DOMAIN data THEN data[f] ELSE DefaultValue(f)]

Returned(state) == [raised |-> FALSE, state |-> state]

Fails == [raised |-> TRUE, state |-> <<>>]

\* models.py OrganismState.load: json.load raises UnicodeDecodeError on
\* undecodable bytes and data.items() raises AttributeError on a value
\* that is not an object; only JSONDecodeError and TypeError are caught.
load(content) ==
    IF content.kind = "missing" THEN Returned(DefaultState(KnownFields))
    ELSE IF content.kind = "bytes" THEN Fails
    ELSE IF content.kind = "invalid"
         THEN Returned(DefaultState(KnownFields))
    ELSE IF content.kind # "object" THEN Fails
    ELSE Returned(FromData(content.data, KnownFields))

\* organism.py and lib/models.py OrganismState.load: cls(**data) raises
\* TypeError, which is caught, on a value that is not an object and on a
\* key that is no field.
legacy_load(content) ==
    IF content.kind = "bytes" THEN Fails
    ELSE IF /\ content.kind = "object"
            /\ DOMAIN content.data \subseteq LegacyKnownFields
         THEN Returned(FromData(content.data, LegacyKnownFields))
    ELSE Returned(DefaultState(LegacyKnownFields))

\* A call of a loader on a state file: what it was given and what it
\* returned.
Load(name, content, result) ==
    /\ last' = [Op(name) EXCEPT !.raised = result.raised,
                                !.out = [NoOut EXCEPT !.input = content,
                                                      !.value = result.state]]
    /\ UNCHANGED <<files, lastShown, orgVars, repo>>

InitState ==
    /\ files = OrgDirectory
    /\ FreshState
    /\ repo = NoRepo("ok")

NextState ==
    \/ \E content \in StateFiles : Load("load", content, load(content))
    \/ \E content \in StateFiles :
          Load("legacy_load", content, legacy_load(content))

SpecState == InitState /\ [][NextState]_vars

----------------------------------------------------------------------------
(* The naming contract, for stating the claims: *)
(* increment_<number><sep><status><sep><slug>.md *)

StatusIndex(name) == NumLen(name) + 2

Slug(name) == SubSeq(name, NumLen(name) + 4, Len(name))

\* The name that differs from a Todo name in its status token alone.
ContractDoneName(name) == [name EXCEPT ![StatusIndex(name)] = "done"]

TodoFiles(fs) == {p \in DOMAIN fs : PatternMatch(p, "todo")}

IsAdvanceDone(l) == l.op = "advance" /\ l.passed /\ ~l.raised

IsIncrementPath(out) == out.kind = "increment" \/ IsSelfInspection(out)

\* A name of the contract: four digits, the same separator twice around a
\* status token, a slug.
IsContractName(name) ==
    /\ NumLen(name) = 4
    /\ Len(name) >= 8
    /\ name[5] \in SEP
    /\ name[6] \in {"todo", "done"}
    /\ name[7] = name[5]

\* The name that differs from a Done name in its status token alone.
ContractTodoName(name) == [name EXCEPT ![StatusIndex(name)] = "todo"]

DoneFiles(fs) == {p \in DOMAIN fs : PatternMatch(p, "done")}

\* The last section of a text.
LastSection(out) == out.sections[Len(out.sections)]

\* The sections of a text, as a set.
SectionsOf(out) == {out.sections[i] : i \in 1..Len(out.sections)}

PlannerOps ==
    {"format_revert_prompt", "format_revert_from_prompt",
     "format_redo_prompt"}

\* The known fields of a JSON object hold values of the fields' types.
WellTyped(data, fields) ==
    \A f \in fields \cap DOMAIN data : data[f].type = DefaultValue(f).type

\* A state file that is there and is not a state: no JSON, no JSON object,
\* or an object with a wrongly typed field.
Corrupt(content) ==
    \/ content.kind \notin {"missing", "object"}
    \/ /\ content.kind = "object"
       /\ ~WellTyped(content.data, KnownFields)

----------------------------------------------------------------------------
(* Claims *)

\* C1: an advance whose test gate fails changes nothing: the file set, the
\* shown-increment number, the generation counter, the fitness history and
\* the rest of the persisted state are the same after it as before.
C1_GateFailureChangesNothing ==
    [][(last'.op = "advance" /\ ~last'.passed)
          => UNCHANGED <<files, lastShown, generation, development_stage,
                         fitness_scores, fitness_history, last_git_hash>>]_vars

\* C1 witness: a failed advance of an increment that had been shown; the
\* Todo file is still there and no generation has passed.
C1_Witness ==
    /\ last.op = "advance"
    /\ ~last.passed
    /\ last.out.kind = "gate_failure"
    /\ last.path \in TodoFiles(files)
    /\ lastShown = ParseNumber(last.path)
    /\ generation = 0
    /\ fitness_history = <<>>

\* C2: producing the verification prompt, for any Todo file and any number
\* of times, leaves the file set as it was; the only step that changes the
\* file set is the rename (mark_done) that the advance performs.
C2_VerificationPromptRenamesNothing ==
    [][/\ (last'.op = "format_verification_prompt" => files' = files)
       /\ (files' # files => last'.op = "mark_done")]_vars

\* C2 witness: a verification prompt for a Todo file has been produced, it
\* names the done name, and the file is still Todo with no done twin.
C2_Witness ==
    /\ last.op = "format_verification_prompt"
    /\ last.path \in TodoFiles(files)
    /\ last.out.kind = "verification"
    /\ last.out.new_name = ContractDoneName(last.path)
    /\ last.out.new_name \notin DOMAIN files

\* C3: an advance whose gate passes renames exactly one file: the current
\* Todo file is gone under its todo name, a file with the same number and
\* slug is there under the done name, every other file is untouched.
C3_AdvanceRenamesExactlyOne ==
    [][IsAdvanceDone(last') =>
          LET old == last'.path
              new == ContractDoneName(old)
          IN /\ old \in DOMAIN files
             /\ DOMAIN files' = (DOMAIN files \ {old}) \cup {new}
             /\ files'[new] = files[old]
             /\ \A p \in DOMAIN files \ {old} : files'[p] = files[p]]_vars

\* C4: mark_done is atomic for every file classified Todo: when it returns
\* normally the old name is gone and the returned path exists and is
\* classified Done (and no longer Todo).
C4_MarkDoneAtomic ==
    (last.op = "mark_done" /\ ~last.raised) =>
        /\ last.path \notin DOMAIN files
        /\ last.out.new_name \in DOMAIN files
        /\ PatternMatch(last.out.new_name, "done")
        /\ ~PatternMatch(last.out.new_name, "todo")

\* C5: mark_done leaves the number, the slug and both separators of the
\* name as they were, also for a slug that has "todo" between separators.
C5_MarkDoneKeepsNumberSlugSeparators ==
    (last.op = "mark_done" /\ ~last.raised) =>
        LET old == last.path
            new == last.out.new_name
            k == NumLen(old)
        IN /\ NumLen(new) = k
           /\ SubSeq(new, 1, k) = SubSeq(old, 1, k)
           /\ new[k + 1] = old[k + 1]
           /\ new[k + 3] = old[k + 3]
           /\ Slug(new) = Slug(old)

C7_FreshPromptAfterAdvance ==
    [][(IsAdvanceDone(last) /\ last'.op = "current_work") =>
          IF TodoFiles(files) # {}
          THEN /\ IsIncrementPath(last'.out)
               /\ \A q \in TodoFiles(files) :
                     last'.out.number <= ParseNumber(q)
          ELSE last.out.all_completed /\ last'.out.kind = "all_done"]_vars

\* C8: current_todo returns the Todo file whose number is the least of all
\* Todo files' numbers, and None when there is no Todo file.
C8_CurrentTodoIsLowestNumbered ==
    IF TodoFiles(files) = {} THEN current_todo(files) = NoPath
    ELSE /\ current_todo(files) \in TodoFiles(files)
         /\ \A q \in TodoFiles(files) :
               ParseNumber(current_todo(files)) <= ParseNumber(q)

C10_IncompleteParseRoutesToSelfInspection ==
    (/\ last.op \in {"format_increment_prompt", "format_verification_prompt"}
     /\ last.path \in DOMAIN files
     /\ ~_is_parse_complete(parse_increment(files, last.path)))
        => IsSelfInspection(last.out)

\* C11 as claimed: for an increment file with an empty body the record is
\* incomplete and the self-inspection prompt takes the empty-file branch;
\* for an incomplete record with non-empty raw content it takes the
\* non-standard-format branch; both end with the workflow checklist.
C11_BranchOnRawContent ==
    (/\ last.op = "format_increment_prompt"
     /\ last.path \in DOMAIN files
     /\ ~last.raised) =>
        LET inc == parse_increment(files, last.path) IN
           /\ (inc.raw_content = <<>> =>
                  /\ ~_is_parse_complete(inc)
                  /\ last.out.kind = "self_inspection_empty")
           /\ ((~_is_parse_complete(inc) /\ inc.raw_content # <<>>) =>
                  last.out.kind = "self_inspection_format")
           /\ (IsSelfInspection(last.out) =>
                  LastSection(last.out) = "WORKFLOW")

\* C11 as amended: a body that is empty or holds whitespace only gives an
\* incomplete record and the empty-file branch; an incomplete record whose
\* raw content holds more than whitespace gives the non-standard-format
\* branch; both end with the workflow checklist.
C11_BranchOnTrimmedContent ==
    (/\ last.op = "format_increment_prompt"
     /\ last.path \in DOMAIN files
     /\ ~last.raised) =>
        LET inc == parse_increment(files, last.path) IN
           /\ (Strip(inc.raw_content) = <<>> =>
                  /\ ~_is_parse_complete(inc)
                  /\ last.out.kind = "self_inspection_empty")
           /\ ((~_is_parse_complete(inc) /\ Strip(inc.raw_content) # <<>>) =>
                  last.out.kind = "self_inspection_format")
           /\ (_is_parse_complete(inc) => last.out.kind = "increment")
           /\ (IsSelfInspection(last.out) =>
                  LastSection(last.out) = "WORKFLOW")

\* C11 witness: the prompt for a file of one blank line took the empty-file
\* branch and ends with the workflow checklist.
C11_Witness ==
    /\ last.op = "format_increment_prompt"
    /\ last.path \in DOMAIN files
    /\ files[last.path] = <<"BLANK">>
    /\ last.out.kind = "self_inspection_empty"
    /\ LastSection(last.out) = "WORKFLOW"

\* C12: for every name of the contract, what parse_increment derives as
\* number, status and short description is the number, the status token and
\* the slug of the name, and deriving them again gives the same.
C12_ParseRecoversNameFields ==
    (/\ last.op = "parse_increment"
     /\ IsContractName(last.path)
     /\ ~last.raised) =>
        /\ last.out.value.number = DigitsToInt(SubSeq(last.path, 1, 4))
        /\ last.out.value.status = last.path[StatusIndex(last.path)]
        /\ last.out.value.short_desc = Slug(last.path)
        /\ ParseNumber(last.path) = last.out.value.number
        /\ ParseStatus(last.path) = last.out.value.status
        /\ ParseShortDesc(last.path) = last.out.value.short_desc

\* C13: lastIncrementNumberShown is 0 at first and changes only in the
\* request for current work that first displays an increment, to that
\* increment's number; the verification prompt, the revert plan, the
\* revert-from plan and the redo plan leave it, and the rest of the
\* persisted state, as they were.
C13_ShownChangesOnlyOnFirstDisplay ==
    /\ lastShown = 0
    /\ [][/\ (lastShown' # lastShown =>
                 /\ last'.op = "current_work"
                 /\ IsIncrementPath(last'.out)
                 /\ lastShown' = last'.out.number)
          /\ ((\/ last'.op \in PlannerOps
               \/ last'.op = "format_verification_prompt"
               \/ last'.out.kind = "verification") =>
                 UNCHANGED <<lastShown, generation, development_stage,
                             fitness_scores, fitness_history,
                             last_git_hash>>)]_vars

\* C13 witness: a redo plan rendered after an increment had been shown; the
\* shown number is still that increment's.
C13_Witness ==
    /\ last.op = "format_redo_prompt"
    /\ lastShown # 0
    /\ current_todo(files) # NoPath
    /\ lastShown = ParseNumber(current_todo(files))

\* C14: the revert plan, the revert-from plan and the redo plan change
\* neither the increment files (names, statuses, bodies) nor the git
\* repository; the rename and the reverts are text of the plan.
C14_PlannerMutatesNothing ==
    [][last'.op \in PlannerOps => (files' = files /\ repo' = repo)]_vars

\* C14 witness: a revert plan that lists commits to revert and hints at the
\* rename of a Done file; the file still has its done name.
C14_Witness ==
    /\ last.op = "format_revert_prompt"
    /\ last.out.commits # <<>>
    /\ last.out.old_name \in DoneFiles(files)
    /\ last.out.new_name # last.out.old_name
    /\ last.out.new_name \notin DOMAIN files

\* C15: the revert-from plan lists exactly from, from - 1, ..., bound, each
\* once and in this order, where bound is the least number of the Todo
\* files or, with no Todo file, the greatest number of the Done files.
C15_RevertFromListsDownToBound ==
    (/\ last.op = "format_revert_from_prompt"
     /\ ~last.raised
     /\ TodoFiles(files) \cup DoneFiles(files) # {}) =>
        LET numbers == IF TodoFiles(files) # {}
                       THEN {ParseNumber(p) : p \in TodoFiles(files)}
                       ELSE {ParseNumber(p) : p \in DoneFiles(files)}
            bound == IF TodoFiles(files) # {}
                     THEN CHOOSE n \in numbers : \A m \in numbers : n <= m
                     ELSE CHOOSE n \in numbers : \A m \in numbers : m <= n
            from == last.out.value
        IN /\ Len(last.out.listed) =
                 (IF from < bound THEN 0 ELSE from - bound + 1)
           /\ \A i \in 1..Len(last.out.listed) :
                 last.out.listed[i] = from - i + 1

\* C16: get_commits_for_increment returns no hash twice, a commit found by
\* both searches included, and in first-seen order: what the search for
\* "INCREMENT nnnn" found, in its order, then what the search for
\* "increment_nnnn" found and the first had not.
C16_CommitsOnceInFirstSeenOrder ==
    (last.op = "get_commits_for_increment" /\ repo.state = "ok") =>
        LET primary == GitLog(repo, Tag("INCREMENT", last.out.number))
            alternate == GitLog(repo, Tag("increment_", last.out.number))
            Unseen(c) == \A i \in 1..Len(primary) : primary[i].hash # c.hash
            commits == last.out.value
        IN /\ commits = primary \o SelectSeq(alternate, Unseen)
           /\ \A i, j \in 1..Len(commits) :
                 commits[i].hash = commits[j].hash => i = j

\* C16 witness: a commit tagged in both spellings and found by both
\* searches is in the result, which holds a second commit as well.
C16_Witness ==
    /\ last.op = "get_commits_for_increment"
    /\ Len(last.out.value) = 2
    /\ \E i \in 1..Len(repo.log) :
          /\ repo.log[i].tags = TagPool
          /\ \E j \in 1..2 : last.out.value[j] = repo.log[i]

\* C17: with git missing or the directory no repository every query returns
\* without raising and gives its neutral value: "" for the current hash and
\* the diff summary, the empty list for the recent commits, the uncommitted
\* paths, the changed files and the commits of an increment, "unknown" for
\* the branch name.
C17_QueriesDegradeToNeutral ==
    repo.state \in {"no_git", "not_repo"} =>
        /\ ~last.raised
        /\ (last.op \in {"get_current_hash", "get_diff_for_commit"} =>
               last.out.value = "")
        /\ (last.op \in {"get_recent_commits", "get_uncommitted_changes",
                         "get_changed_files_in_last_commit",
                         "get_commits_for_increment"} =>
               last.out.value = <<>>)
        /\ (last.op = "get_branch" => last.out.value = "unknown")

\* C18: a revert plan for an increment without matching commits is rendered
\* without raising and holds the "No commits found" line and the "Search
\* manually" hint, with or without an increment file of that number,
\* whatever the file holds.
C18_NoCommitsIsRendered ==
    (/\ last.op = "format_revert_prompt"
     /\ get_commits_for_increment(repo, last.out.number) = <<>>) =>
        /\ ~last.raised
        /\ last.out.kind = "revert"
        /\ last.out.commits = <<>>
        /\ {"No commits found", "Search manually"} \subseteq SectionsOf(last.out)

\* C19: the redo plan is always rendered and starts with the revert plan of
\* the increment; without
\* an increment file, or with one whose parsed description is empty, it
\* holds the fallback notice and no requirement, acceptance-criteria or
\* principle section; with a description it presents that description.
C19_RedoFallsBackWithoutDescription ==
    last.op = "format_redo_prompt" =>
      /\ ~last.raised
      /\
        LET revert == format_revert_prompt(files, repo, last.out.number)
            inc_file == _find_increment_file(files, last.out.number)
            described ==
                /\ inc_file # NoPath
                /\ Strip(parse_increment(files, inc_file).description) # <<>>
            sections == SectionsOf(last.out)
        IN /\ SubSeq(last.out.sections, 1, Len(revert.sections))
                 = revert.sections
           /\ last.out.sections[Len(revert.sections) + 1] = "AFTER REVERT"
           /\ ~described =>
                 /\ "Increment file not found or empty" \in sections
                 /\ sections \cap {"REQUIREMENT", "ACCEPTANCE CRITERIA",
                                   "APPLICABLE PRINCIPLES"} = {}
           /\ described =>
                 /\ "REQUIREMENT" \in sections
                 /\ "Increment file not found or empty" \notin sections
                 /\ last.out.value
                       = parse_increment(files, inc_file).description

\* C20: the revert plan has the rename-back hint exactly when the file found
\* for the number has the status Done, and the todo name it suggests is the
\* done name with the status token changed and nothing else.
C20_RenameHintOnlyForDone ==
    (last.op = "format_revert_prompt" /\ ~last.raised) =>
        LET inc_file == _find_increment_file(files, last.out.number)
            hinted == "POST-REVERT" \in SectionsOf(last.out)
        IN /\ hinted <=> (/\ inc_file # NoPath
                          /\ inc_file[StatusIndex(inc_file)] = "done")
           /\ hinted => /\ last.out.old_name = inc_file
                        /\ last.out.new_name = ContractTodoName(inc_file)

\* C21: load of models.py returns, without raising, a fresh state
\* (generation 0, empty history) for a missing state file and for every
\* corrupt one: bytes or text that is no JSON, a JSON value that is no
\* object, an object with a wrongly typed field.
C21_LoadNeverFails ==
    (/\ last.op = "load"
     /\ (last.out.input.kind = "missing" \/ Corrupt(last.out.input))) =>
        /\ ~last.raised
        /\ last.out.value = DefaultState(KnownFields)

\* C22: load, in models.py, organism.py and lib/models.py alike, of a JSON
\* object with well-typed known fields next to keys that are no field of the
\* loader returns the stored values of the known fields, the defaults for
\* the fields not stored, and does not raise.
C22_UnknownKeysIgnored ==
    \A name \in {"load", "legacy_load"} :
        LET fields == IF name = "load" THEN KnownFields
                      ELSE LegacyKnownFields
        IN (/\ last.op = name
            /\ last.out.input.kind = "object"
            /\ WellTyped(last.out.input.data, KnownFields)
            /\ DOMAIN last.out.input.data \cap fields # {}
            /\ DOMAIN last.out.input.data \ fields # {}) =>
               /\ ~last.raised
               /\ last.out.value = FromData(last.out.input.data, fields)

\* C23: parse_increment raises for no file of the directory, whatever its
\* bytes: it returns a record, and the record's raw content is the content
\* of the file.
C23_ParseNeverRaises ==
    (last.op = "parse_increment" /\ last.path \in DOMAIN files) =>
        /\ ~last.raised
        /\ last.out.value.raw_content = files[last.path]

\* C24: the related_principles of a parsed record hold no code twice: of a
\* code the source lists more than once only the first reference is kept.
C24_PrinciplesDistinctByCode ==
    (last.op = "parse_increment" /\ ~last.raised) =>
        LET refs == last.out.value.related_principles IN
           \A i, j \in 1..Len(refs) : refs[i] = refs[j] => i = j

\* The increment files, Todo and Done, that carry a number.
FilesNumbered(fs, number) ==
    {p \in TodoFiles(fs) \cup DoneFiles(fs) : ParseNumber(p) = number}

\* C25: when two increment files carry the number looked up, the revert
\* plan of that number (lookup by number) and the range plan bounded by the
\* current Todo increment (lookup of the current increment) are not rendered
\* as if one file carried it: the inconsistency is surfaced instead.
C25_DuplicateNumbersSurfaced ==
    /\ (/\ last.op = "format_revert_prompt"
        /\ Cardinality(FilesNumbered(files, last.out.number)) > 1) =>
           last.out.kind # "revert"
    /\ (/\ last.op = "format_revert_from_prompt"
        /\ current_todo(files) # NoPath
        /\ Cardinality(FilesNumbered(files,
                                     ParseNumber(current_todo(files)))) > 1) =>
           last.out.kind # "revert_from"

\* C26: an advance that passed the gate either finds the done name taken,
\* raises and leaves the directory alone, or leaves the file under its done
\* name; when the state was then not saved (the generation did not advance)
\* the call raised, and the file keeps its done name all the same.
C26_RenameKeptWhenSaveFails ==
    [][(last'.op = "advance" /\ last'.passed) =>
          LET current == current_todo(files)
              new_path == DoneName(current)
          IN \/ /\ last'.raised
                /\ new_path # current
                /\ new_path \in DOMAIN files
                /\ files' = files
             \/ /\ files' = Rename(files, current, new_path)
                /\ generation' # generation + 1 => last'.raised]_vars

\* C26 witness: an advance renamed increment_0002_todo_x.md, could not save
\* the state and raised; the done file is on disk, the todo file is not.
C26_Witness ==
    /\ last.op = "advance"
    /\ last.passed
    /\ last.raised
    /\ last.out.old_name = <<"0", "0", "0", "2", "_", "todo", "_", "x">>
    /\ last.out.new_name = <<"0", "0", "0", "2", "_", "done", "_", "x">>
    /\ last.out.new_name \in DOMAIN files
    /\ last.out.old_name \notin DOMAIN files
    /\ generation = 0

\* C27: from a fresh state, after any number of calls of advance_generation,
\* generation is the number of calls and the length of fitness_history, the
\* entries are tagged 0, 1, 2, ... and development_stage is the stage of the
\* generation: embryonic up to 3, growth up to 10, maturation up to 20,
\* homeostasis above; each call adds exactly 1 to generation and appends
\* exactly one entry, tagged with the generation before the call.
C27_GenerationCountsAdvances ==
    /\ [](/\ generation = Len(fitness_history)
          /\ \A i \in 1..Len(fitness_history) :
                 fitness_history[i].generation = i - 1
          /\ development_stage =
                 (IF generation <= 3 THEN "embryonic"
                  ELSE IF generation <= 10 THEN "growth"
                  ELSE IF generation <= 20 THEN "maturation"
                  ELSE "homeostasis"))
    /\ [][last'.op = "advance_generation" =>
             /\ generation' = generation + 1
             /\ Len(fitness_history') = Len(fitness_history) + 1
             /\ SubSeq(fitness_history', 1, Len(fitness_history))
                   = fitness_history
             /\ fitness_history'[Len(fitness_history')].generation
                   = generation]_vars

\* C27 witness: the twenty-first call of advance_generation took the
\* organism into homeostasis, with twenty-one entries on record.
C27_Witness ==
    /\ last.op = "advance_generation"
    /\ generation = 21
    /\ Len(fitness_history) = 21
    /\ fitness_history[21].generation = 20
    /\ development_stage = "homeostasis"

\* C28: in a directory that held Todo files only, no two of one number, and
\* in which mark_done was applied to nothing but the file current_todo
\* returned, every Done increment number is smaller than every Todo
\* increment number.
C28_DoneNumbersBelowTodoNumbers ==
    (\A p, q \in DOMAIN files : p # q => ParseNumber(p) # ParseNumber(q)) =>
        \A d \in DoneFiles(files), t \in TodoFiles(files) :
            ParseNumber(d) < ParseNumber(t)

\* C29: a mark_done of a Todo file that returns leaves total_count as it
\* was, raises done_count by exactly 1 and lowers the number of Todo files by
\* exactly 1, whatever the directory holds, a file under the target done
\* name included.
C29_MarkDoneMovesOneFile ==
    [][(last'.op = "mark_done" /\ ~last'.raised) =>
          /\ total_count(files') = total_count(files)
          /\ done_count(files') = done_count(files) + 1
          /\ CountFiles(files', "todo") = CountFiles(files, "todo") - 1]_vars

\* C30: for every file _increment_files(status) returns, parse_increment
\* reports that status, and _find_increment_file of the parsed number
\* returns a file, one that carries that number, whatever the digit count
\* and the separators of the name.
C30_DiscoveryParseLookupAgree ==
    \A status \in {"todo", "done"} :
        \A i \in 1..Len(_increment_files(files, status)) :
            LET path == _increment_files(files, status)[i] IN
               ~ParseRaises(files, path) =>
                  LET inc == parse_increment(files, path)
                      found == _find_increment_file(files, inc.number)
                  IN /\ inc.status = status
                     /\ found # NoPath
                     /\ ParseNumber(found) = inc.number

====
